---------------------------- MODULE Spec2Model ----------------------------
(***************************************************************************)
(* A model of ru_soundex/soundex.py: the Soundex base class and the        *)
(* RussianSoundex specialisation.  One call of RussianSoundex.transform is *)
(* a run of the state machine below; its steps are the statements of       *)
(* transform and of Soundex._apply_soundex_algorithm, in source order.     *)
(*                                                                         *)
(* A string is a sequence of characters.  A character is written in ASCII: *)
(* the lower-case Cyrillic letters are                                     *)
(*   a b v g d ye yo zh z i iy k l m n o p r s t u f kh ts ch sh shch      *)
(*   hard y soft e yu ya                                                   *)
(* (iy is the short i, hard and soft are the two signs, e is the reversed  *)
(* e, ye the plain one), an upper-case Cyrillic letter is the same name in *)
(* capitals, the Latin letters the code writes are lat_j, lat_J, lat_A,    *)
(* lat_B, lat_C, and the digits are "0" .. "9".                            *)
(***************************************************************************)
EXTENDS Integers, Sequences, FiniteSets, TLC

(***************************************************************************)
(* Characters and case                                                     *)
(***************************************************************************)
CyrLower ==
    << "a", "b", "v", "g", "d", "ye", "yo", "zh", "z", "i", "iy", "k", "l",
       "m", "n", "o", "p", "r", "s", "t", "u", "f", "kh", "ts", "ch", "sh",
       "shch", "hard", "y", "soft", "e", "yu", "ya" >>

CyrUpper ==
    << "A", "B", "V", "G", "D", "YE", "YO", "ZH", "Z", "I", "IY", "K", "L",
       "M", "N", "O", "P", "R", "S", "T", "U", "F", "KH", "TS", "CH", "SH",
       "SHCH", "HARD", "Y", "SOFT", "E", "YU", "YA" >>

LatLower == << "lat_j", "lat_a", "lat_b", "lat_c" >>

LatUpper == << "lat_J", "lat_A", "lat_B", "lat_C" >>

Digits == { "0", "1", "2", "3", "4", "5", "6", "7", "8", "9" }

Range(f) == { f[x] : x \in DOMAIN f }

Letters == Range(CyrLower) \cup Range(CyrUpper) \cup Range(LatLower) \cup Range(LatUpper)

Chars == Letters \cup Digits

IndexOf(seq, c) == CHOOSE i \in DOMAIN seq : seq[i] = c

\* str.lower() and str.upper() of one character
LowerMap ==
    [ c \in Chars |->
        IF c \in Range(CyrUpper) THEN CyrLower[IndexOf(CyrUpper, c)]
        ELSE IF c \in Range(LatUpper) THEN LatLower[IndexOf(LatUpper, c)]
        ELSE c ]

UpperMap ==
    [ c \in Chars |->
        IF c \in Range(CyrLower) THEN CyrUpper[IndexOf(CyrLower, c)]
        ELSE IF c \in Range(LatLower) THEN LatUpper[IndexOf(LatLower, c)]
        ELSE c ]

lower(w) == [ i \in 1..Len(w) |-> LowerMap[w[i]] ]

upper(w) == [ i \in 1..Len(w) |-> UpperMap[w[i]] ]

\* str.capitalize() of a one-character string
capitalize(w) == upper(w)

(***************************************************************************)
(* Regular expressions.  A pattern is a sequence of character classes, one *)
(* per character it consumes; bol says that the first class is the         *)
(* alternation (^|class), eol that the match must end the string, ic is    *)
(* re.IGNORECASE.  A replacement template is a sequence of items: pos > 0  *)
(* copies the matched character at that offset (a group reference), pos =  *)
(* 0 writes the literal lit.  ReSub is pattern.sub(template, w): the       *)
(* leftmost non-overlapping matches, found in one scan, are replaced.      *)
(***************************************************************************)
Fold(c, ic) == IF ic THEN LowerMap[c] ELSE c

FullMatch(w, i, re) ==
    /\ i + Len(re.pat) - 1 <= Len(w)
    /\ re.eol => i + Len(re.pat) - 1 = Len(w)
    /\ \A k \in 1..Len(re.pat) : Fold(w[i + k - 1], re.ic) \in re.pat[k]

\* the number of characters the match at i consumes, 0 when there is none;
\* with bol the empty alternative ^ is tried first
MatchLen(w, i, re) ==
    IF re.bol /\ i = 1 /\ Fold(w[1], re.ic) \in re.pat[2] THEN 1
    ELSE IF FullMatch(w, i, re) THEN Len(re.pat)
    ELSE 0

\* the template instantiated for the match of n characters at i
Expand(w, i, n, re) ==
    [ k \in 1..Len(re.repl) |->
        IF re.repl[k].pos > 0
            THEN w[i + re.repl[k].pos - 1 - (Len(re.pat) - n)]
            ELSE re.repl[k].lit ]

RECURSIVE SubFrom(_, _, _)
SubFrom(w, i, re) ==
    IF i > Len(w) THEN << >>
    ELSE LET n == MatchLen(w, i, re) IN
         IF n > 0 THEN Expand(w, i, n, re) \o SubFrom(w, i + n, re)
         ELSE << w[i] >> \o SubFrom(w, i + 1, re)

ReSub(re, w) == SubFrom(w, 1, re)

Lit(c) == [ pos |-> 0, lit |-> c ]

Grp(p) == [ pos |-> p, lit |-> "" ]

Regex(pat, repl) == [ pat |-> pat, repl |-> repl, bol |-> FALSE, eol |-> FALSE, ic |-> TRUE ]


(***************************************************************************)
(* class Soundex, class RussianSoundex: the tables                         *)
(***************************************************************************)
\* RussianSoundex._vowels
vowels == { "a", "e", "i", "o", "u", "y", "ye", "yo", "yu", "ya" }

\* RussianSoundex._vowels_table
vowels_table ==
    [ c \in vowels |->
        IF c \in { "a", "ya", "o" } THEN "lat_A"
        ELSE IF c \in { "y", "i", "ye", "yo", "e" } THEN "lat_B"
        ELSE "lat_C" ]

\* RussianSoundex._table
TableKeys ==
    << "b", "p", "v", "f", "g", "k", "kh", "d", "t", "zh", "sh", "ch", "shch",
       "z", "s", "ts", "l", "m", "n", "r" >>

TableVals ==
    << "1", "1", "2", "2", "3", "3", "3", "4", "4", "5", "5", "5", "5",
       "6", "6", "6", "7", "8", "8", "9" >>

table == [ c \in Range(TableKeys) |-> TableVals[IndexOf(TableKeys, c)] ]

\* str.translate: a character the table does not map is kept
translate(w, t) == [ i \in 1..Len(w) |-> IF w[i] \in DOMAIN t THEN t[w[i]] ELSE w[i] ]

\* RussianSoundex._ego_ogo_endings and _replace_ego_ogo_endings
ego_ogo_endings ==
    [ pat |-> << { "ye", "o" }, { "g" }, { "o" } >>,
      repl |-> << Grp(1), Lit("v"), Grp(3) >>,
      bol |-> FALSE, eol |-> TRUE, ic |-> TRUE ]

replace_ego_ogo_endings(word) == ReSub(ego_ogo_endings, word)

\* the four iotation rules: (^|hard|soft|vowel)(soft vowel) -> j + hard vowel
Iotation(soft, hard) ==
    [ pat |-> << { "hard", "soft" } \cup vowels, { soft } >>,
      repl |-> << Lit("lat_j"), Lit(hard) >>,
      bol |-> TRUE, eol |-> FALSE, ic |-> TRUE ]

Sibilants == { "zh", "ts", "ch", "sh", "shch" }

RulesWith(stRule) ==
    << Iotation("ya", "a"),
       Iotation("yu", "u"),
       Iotation("ye", "e"),
       Iotation("yo", "o"),
       Regex(<< { "iy" } >>, << Lit("lat_j") >>),
       Regex(<< { "t", "s", "z" } \cup Sibilants, Sibilants >>, << Grp(2) >>),
       stRule,
       Regex(<< { "n" }, { "t", "d" }, { "s" }, { "t" }, { "v" } >>,
             << Grp(1), Grp(3), Grp(4), Grp(5) >>),
       Regex(<< { "n", "s" }, { "t", "d" }, { "s" }, { "k" } >>,
             << Grp(1), Grp(3), Grp(4) >>),
       Regex(<< { "r" }, { "d" }, { "ch", "ts" } >>, << Grp(1), Grp(3) >>),
       Regex(<< { "z" }, { "d" }, { "n", "ts" } >>, << Grp(1), Grp(3) >>),
       Regex(<< { "v" }, { "s" }, { "t" }, { "v" } >>, << Grp(2), Grp(3), Grp(4) >>),
       Regex(<< { "l" }, { "n" }, { "ts" } >>, << Grp(2), Grp(3) >>),
       Regex(<< { "hard", "soft" } >>, << >>),
       Regex(<< { "d", "t" }, { "z", "s", "ts" } >>, << Lit("ts") >>) >>

\* the rule list with n left out of the class of line 90
replacement_map_stn_missing ==
    RulesWith(Regex(<< { "s" }, { "t" }, { "l", "ts" } >>, << Grp(1), Grp(3) >>))

\* RussianSoundex._replacement_map, in insertion order; line 90 is its 7th rule
replacement_map ==
    RulesWith(Regex(<< { "s" }, { "t" }, { "l", "n", "ts" } >>, << Grp(1), Grp(3) >>))

\* for replace, result in self._replacement_map.items(): word = replace.sub(result, word)
RECURSIVE ApplyRules(_, _, _)
ApplyRules(rules, k, word) ==
    IF k > Len(rules) THEN word
    ELSE ApplyRules(rules, k + 1, ReSub(rules[k], word))

replace_all(word) == ApplyRules(replacement_map, 1, word)

\* the two re.sub calls under code_vowels; they are compiled without re.IGNORECASE
cleanup_i ==
    [ pat |-> << { "i" }, { "ye", "i", "o" } >>, repl |-> << Lit("i") >>,
      bol |-> FALSE, eol |-> FALSE, ic |-> FALSE ]

cleanup_ya ==
    [ pat |-> << { "ye", "i" }, { "a", "ya" } >>, repl |-> << Lit("ya") >>,
      bol |-> FALSE, eol |-> FALSE, ic |-> FALSE ]

code_vowels_cleanup(c, word) ==
    IF c.code_vowels THEN ReSub(cleanup_ya, ReSub(cleanup_i, word)) ELSE word

(***************************************************************************)
(* class Soundex: the helpers of _apply_soundex_algorithm                  *)
(***************************************************************************)
is_vowel(letter) == letter \in vowels

\* Soundex._reduce_seq: _reduce_regex = (\w)(\1)+ with re.IGNORECASE, replaced
\* by \1.  Every character of the model is a word character.
RECURSIVE RunEnd(_, _, _)
RunEnd(seq, i, j) ==
    IF j + 1 <= Len(seq) /\ LowerMap[seq[j + 1]] = LowerMap[seq[i]]
        THEN RunEnd(seq, i, j + 1)
        ELSE j

RECURSIVE ReduceFrom(_, _)
ReduceFrom(seq, i) ==
    IF i > Len(seq) THEN << >>
    ELSE << seq[i] >> \o ReduceFrom(seq, RunEnd(seq, i, i) + 1)

\* a reducer whose pattern is (\w)\1, without the +: it halves a run
RECURSIVE reduce_seq_pairs_from(_, _)
reduce_seq_pairs_from(seq, i) ==
    IF i > Len(seq) THEN << >>
    ELSE IF i + 1 <= Len(seq) /\ LowerMap[seq[i + 1]] = LowerMap[seq[i]]
        THEN << seq[i] >> \o reduce_seq_pairs_from(seq, i + 2)
        ELSE << seq[i] >> \o reduce_seq_pairs_from(seq, i + 1)

reduce_seq_pairs(seq) == reduce_seq_pairs_from(seq, 1)

reduce_seq(seq) == ReduceFrom(seq, 1)

\* Soundex._translate_vowels and its override RussianSoundex._translate_vowels
translate_vowels(c, word) ==
    IF c.code_vowels
        THEN translate(word, vowels_table)
        ELSE [ i \in 1..Len(word) |-> IF is_vowel(word[i]) THEN "0" ELSE word[i] ]

\* _vowels_regex = (0+), replaced by the empty string
StripZeros(seq) == SelectSeq(seq, LAMBDA x : x # "0")

remove_vowels_and_paired_sounds(seq) == reduce_seq(StripZeros(seq))

RECURSIVE Zeros(_)
Zeros(n) == IF n <= 0 THEN << >> ELSE << "0" >> \o Zeros(n - 1)

\* lines 43-46: lower, translate by the table, translate the vowels
classify(c, word) == translate_vowels(c, translate(lower(word), table))

\* lines 48-49
strip(c, last) == IF c.delete_zeros THEN remove_vowels_and_paired_sounds(last) ELSE last

\* a cut that truncates and never pads
cut_without_padding(c, last) ==
    IF c.cut_result /\ Len(last) >= c.seq_cutted_len
        THEN SubSeq(last, 1, c.seq_cutted_len)
        ELSE last

\* lines 50-52, for seq_cutted_len >= 0
cut(c, last) ==
    IF c.cut_result
        THEN LET kept == IF Len(last) >= c.seq_cutted_len
                            THEN SubSeq(last, 1, c.seq_cutted_len)
                            ELSE last
             IN  kept \o Zeros(c.seq_cutted_len - Len(kept))
        ELSE last

\* lines 53-54
drop_first_coded(c, last) ==
    IF c.delete_first_coded_letter THEN SubSeq(last, 2, Len(last)) ELSE last

\* lines 55-56
format(c, first, last) ==
    (IF c.delete_first_letter THEN << >> ELSE capitalize(first)) \o upper(last)

(***************************************************************************)
(* The morphological analyser (pymorphy2.MorphAnalyzer.parse) is outside   *)
(* the repository.  A call either raises or returns a list of parses, the  *)
(* best first; a parse is modelled by its tag, a set of grammemes.         *)
(***************************************************************************)
MaxParses == 2

Tags == { { "ADJF" }, { "NUMB" }, { "NPRO" }, { "NOUN" } }

ParseLists == UNION { [ 1..k -> Tags ] : k \in 0..MaxParses }

OracleAnswers ==
    { [ raises |-> FALSE, parse |-> p ] : p \in ParseLists }
        \cup { [ raises |-> TRUE, parse |-> << >> ] }

NoAnswer == [ raises |-> FALSE, parse |-> << >> ]

\* a test that looks at every parse, not at the best one only
TagConfirms_any_parse(parse) ==
    \E i \in 1..Len(parse) :
        \/ "ADJF" \in parse[i]
        \/ "NUMB" \in parse[i]
        \/ "NPRO" \in parse[i]

\* the test of line 132
TagConfirms(parse) ==
    /\ parse # << >>
    /\ \/ "ADJF" \in parse[1]
       \/ "NUMB" \in parse[1]
       \/ "NPRO" \in parse[1]

\* RussianSoundex._use_morph_for_phoneme_replace, given parse = self._moprh.parse(word)
use_morph_for_phoneme_replace(word, parse) ==
    IF TagConfirms(parse) THEN replace_ego_ogo_endings(word) ELSE word

(***************************************************************************)
(* RussianSoundex.transform as a function of the configuration, the word   *)
(* and the analyser's answer: the outcome is the code returned, or the     *)
(* exception that leaves the call.                                         *)
(***************************************************************************)
Returned(code) == [ status |-> "done", code |-> code ]

Raised == [ status |-> "raised", code |-> << >> ]

\* Soundex._apply_soundex_algorithm; word[0] raises IndexError on the empty string
apply_soundex_algorithm(c, word) ==
    IF word = << >> THEN Raised
    ELSE LET first == << lower(word)[1] >>
             last == drop_first_coded(c, cut(c, strip(c, reduce_seq(classify(c, word)))))
         IN  Returned(format(c, first, last))

transform(c, w, answer) ==
    IF c.use_morph_analysis /\ answer.raises THEN Raised
    ELSE LET hooked == IF c.use_morph_analysis
                           THEN use_morph_for_phoneme_replace(w, answer.parse)
                           ELSE w
         IN  apply_soundex_algorithm(c, code_vowels_cleanup(c, replace_all(hooked)))

(***************************************************************************)
(* One call of transform, statement by statement                           *)
(***************************************************************************)
VARIABLES
    cfg,     \* the attributes set by __init__
    input,   \* the argument of transform
    answer,  \* what self._moprh.parse returned to this call
    word,    \* the local variable word
    first,   \* the local variable first of _apply_soundex_algorithm
    last,    \* the local variable last of _apply_soundex_algorithm
    result,  \* the value returned
    pc       \* the statement the call is at

vars == << cfg, input, answer, word, first, last, result, pc >>

\* lines 137-138
UseMorph ==
    /\ pc = "morph"
    /\ \E a \in (IF cfg.use_morph_analysis THEN OracleAnswers ELSE { NoAnswer }) :
          /\ answer' = a
          /\ IF cfg.use_morph_analysis /\ a.raises
                THEN /\ pc' = "raised"
                     /\ word' = word
                ELSE /\ pc' = "replace"
                     /\ word' = IF cfg.use_morph_analysis
                                   THEN use_morph_for_phoneme_replace(word, a.parse)
                                   ELSE word
    /\ UNCHANGED << cfg, input, first, last, result >>

\* lines 139-140
Replace ==
    /\ pc = "replace"
    /\ word' = replace_all(word)
    /\ pc' = "cleanup"
    /\ UNCHANGED << cfg, input, answer, first, last, result >>

\* lines 141-143
Cleanup ==
    /\ pc = "cleanup"
    /\ word' = code_vowels_cleanup(cfg, word)
    /\ pc' = "classify"
    /\ UNCHANGED << cfg, input, answer, first, last, result >>

\* lines 43-46
Classify ==
    /\ pc = "classify"
    /\ IF word = << >>
          THEN /\ pc' = "raised"
               /\ UNCHANGED << first, last >>
          ELSE /\ first' = << lower(word)[1] >>
               /\ last' = classify(cfg, word)
               /\ pc' = "reduce"
    /\ UNCHANGED << cfg, input, answer, word, result >>

\* line 47
Reduce ==
    /\ pc = "reduce"
    /\ last' = reduce_seq(last)
    /\ pc' = "strip"
    /\ UNCHANGED << cfg, input, answer, word, first, result >>

\* lines 48-49
Strip ==
    /\ pc = "strip"
    /\ last' = strip(cfg, last)
    /\ pc' = "cut"
    /\ UNCHANGED << cfg, input, answer, word, first, result >>

\* lines 50-52
Cut ==
    /\ pc = "cut"
    /\ last' = cut(cfg, last)
    /\ pc' = "format"
    /\ UNCHANGED << cfg, input, answer, word, first, result >>

\* lines 53-56
Format ==
    /\ pc = "format"
    /\ last' = drop_first_coded(cfg, last)
    /\ result' = format(cfg, first, last')
    /\ pc' = "done"
    /\ UNCHANGED << cfg, input, answer, word, first >>

Next == UseMorph \/ Replace \/ Cleanup \/ Classify \/ Reduce \/ Strip \/ Cut \/ Format

(***************************************************************************)
(* The calls explored.  A call starts with the word it is given and a      *)
(* configuration fixed by __init__.                                        *)
(***************************************************************************)
MaxLen == 3

MaxCut == 3

MaxClusterLen == 5

\* the default of seq_cutted_len
DefaultCutLen == 4

Words(S, n) == UNION { [ 1..k -> S ] : k \in 0..n }

Config(dfl, dfcl, dz, cr, n, cv, um) ==
    [ delete_first_letter |-> dfl, delete_first_coded_letter |-> dfcl,
      delete_zeros |-> dz, cut_result |-> cr, seq_cutted_len |-> n,
      code_vowels |-> cv, use_morph_analysis |-> um ]

DefaultConfig == Config(FALSE, FALSE, FALSE, FALSE, DefaultCutLen, FALSE, FALSE)

Start(words, configs) ==
    /\ cfg \in configs
    /\ input \in words
    /\ word = input
    /\ answer = NoAnswer
    /\ first = << >>
    /\ last = << >>
    /\ result = << >>
    /\ pc = "morph"

\* every flag of Soundex.__init__ and code_vowels, the analyser off
PlainConfigs ==
    { Config(dfl, dfcl, dz, TRUE, n, cv, FALSE) :
        dfl \in BOOLEAN, dfcl \in BOOLEAN, dz \in BOOLEAN,
        n \in 0..MaxCut, cv \in BOOLEAN }
      \cup
    { Config(dfl, dfcl, dz, FALSE, DefaultCutLen, cv, FALSE) :
        dfl \in BOOLEAN, dfcl \in BOOLEAN, dz \in BOOLEAN, cv \in BOOLEAN }

\* every setting of the five flags, the cut at MaxCut when it is on
FlagConfigs ==
    { Config(dfl, dfcl, dz, cr, MaxCut, cv, FALSE) :
        dfl \in BOOLEAN, dfcl \in BOOLEAN, dz \in BOOLEAN, cr \in BOOLEAN,
        cv \in BOOLEAN }

\* two vowels, a soft vowel in both cases, a sign, two consonants of one class
InLetters == { "a", "i", "ya", "YA", "soft", "b", "p" }

Init == Start(Words(InLetters, MaxLen), PlainConfigs)

Spec == Init /\ [][Next]_vars

\* the analyser on or off, over words that can end in -ego and -ogo
MorphConfigs ==
    { Config(FALSE, FALSE, dz, FALSE, DefaultCutLen, cv, um) :
        dz \in BOOLEAN, cv \in BOOLEAN, um \in BOOLEAN }

InLettersMorph == { "ye", "o", "g", "O" }

InitMorph == Start(Words(InLettersMorph, MaxLen), MorphConfigs)

SpecMorph == InitMorph /\ [][Next]_vars

\* the consonants of the clusters stl, stn, stts and lnts, and a vowel; the
\* leading letter is left out of the code, so that two codes differ only by
\* their coded tails
ClusterConfigs ==
    { Config(TRUE, FALSE, dz, FALSE, DefaultCutLen, FALSE, FALSE) : dz \in BOOLEAN }

InLettersCluster == { "l", "n", "s", "t", "ts", "a" }

InitCluster == Start(Words(InLettersCluster, MaxClusterLen), ClusterConfigs)

SpecCluster == InitCluster /\ [][Next]_vars

(***************************************************************************)
(* The properties                                                          *)
(***************************************************************************)
\* the code returned without its optional leading letter
CodedTail == IF cfg.delete_first_letter THEN result ELSE Tail(result)

\* how the call ended
Finished == pc \in { "done", "raised" }

Outcome == IF pc = "done" THEN Returned(result) ELSE Raised

Max(a, b) == IF a >= b THEN a ELSE b

\* C1, as stated: when cut_result is set, the coded tail of the code returned
\* has length exactly seq_cutted_len, whatever the other flags are.
C1_TailLengthIsCutLen ==
    (pc = "done" /\ cfg.cut_result) => Len(CodedTail) = cfg.seq_cutted_len

\* C1, amended: when cut_result is set, the coded tail has length
\* seq_cutted_len if delete_first_coded_letter is off, and seq_cutted_len - 1
\* (0 when seq_cutted_len is 0) if it is on: the first coded letter is dropped
\* after the cut.
C1_TailLengthAfterCut ==
    (pc = "done" /\ cfg.cut_result) =>
        Len(CodedTail) = IF cfg.delete_first_coded_letter
                            THEN Max(cfg.seq_cutted_len - 1, 0)
                            ELSE cfg.seq_cutted_len

C1_Witness ==
    /\ pc = "done"
    /\ cfg.cut_result
    /\ cfg.delete_first_coded_letter
    /\ cfg.seq_cutted_len = 3
    /\ Len(reduce_seq(classify(cfg, word))) > 3
    /\ Len(CodedTail) = 2

\* C2: transform(w) equals transform(w.upper()) for every word of Russian
\* letters and every configuration, code_vowels included.
C2_CaseInvariance ==
    Finished => Outcome = transform(cfg, upper(input), answer)

\* C3: transform raises on no word but the empty one.
C3_TotalOnNonEmpty ==
    pc = "raised" => input = << >>

\* C4: when the analyser's call raises, transform does not: it returns the
\* code it returns with use_morph_analysis off.
C4_OracleFailureTolerated ==
    (Finished /\ cfg.use_morph_analysis /\ answer.raises) =>
        Outcome = transform([ cfg EXCEPT !.use_morph_analysis = FALSE ], input, NoAnswer)

\* C5: with delete_first_letter off the code starts with the capitalized
\* first character of the word given to transform; with it on the code is the
\* coded tail alone.
C5_FirstLetterIsOriginal ==
    pc = "done" =>
        IF cfg.delete_first_letter
            THEN result = upper(last)
            ELSE /\ result # << >>
                 /\ result[1] = UpperMap[input[1]]
                 /\ Tail(result) = upper(last)

\* the word ends in -ego or -ogo, in either case
EndsInEgoOgo(w) ==
    /\ Len(w) >= 3
    /\ LowerMap[w[Len(w) - 2]] \in { "ye", "o" }
    /\ LowerMap[w[Len(w) - 1]] = "g"
    /\ LowerMap[w[Len(w)]] = "o"

\* the best parse is tagged adjective, numeral or pronoun
BestParseConfirms(a) ==
    /\ Len(a.parse) >= 1
    /\ a.parse[1] \cap { "ADJF", "NUMB", "NPRO" } # { }

\* C6: with use_morph_analysis on, the g of a final -ego/-ogo becomes v if
\* and only if the analyser returns a parse and the best one is tagged
\* adjective, numeral or pronoun; with no parse the ending is kept, the other
\* rules still run, and under the default configuration the code of a word in
\* -ogo differs from the code got when the analyser confirms an adjective.
C6_MorphGate ==
    /\ (cfg.use_morph_analysis /\ pc = "replace") =>
          IF EndsInEgoOgo(input) /\ BestParseConfirms(answer)
              THEN word = [ input EXCEPT ![Len(input) - 1] = "v" ]
              ELSE word = input
    /\ (cfg.use_morph_analysis /\ pc = "done" /\ answer.parse = << >>) =>
          /\ Returned(result) =
                 transform([ cfg EXCEPT !.use_morph_analysis = FALSE ], input, NoAnswer)
          /\ ( /\ cfg = [ DefaultConfig EXCEPT !.use_morph_analysis = TRUE ]
               /\ EndsInEgoOgo(input) /\ LowerMap[input[Len(input) - 2]] = "o" ) =>
                 Returned(result) #
                     transform(cfg, input, [ raises |-> FALSE, parse |-> << { "ADJF" } >> ])

C6_Witness ==
    /\ pc = "done"
    /\ cfg = [ DefaultConfig EXCEPT !.use_morph_analysis = TRUE ]
    /\ answer.parse = << >>
    /\ input = << "o", "g", "o" >>
    /\ result = << "O", "0", "3", "0" >>

\* the word without its i-th character
RemoveAt(w, i) == SubSeq(w, 1, i - 1) \o SubSeq(w, i + 1, Len(w))

\* the word holds s t X at i, with X in the class xs
ClusterAt(w, i, xs) ==
    /\ i + 2 <= Len(w)
    /\ w[i] = "s"
    /\ w[i + 1] = "t"
    /\ w[i + 2] \in xs

\* C7, as stated: for X in l, n, ts and any u, v, transform(u + s t X + v)
\* equals transform(u + s X + v), in every configuration with the analyser off.
C7_SilentStop ==
    pc = "done" =>
        \A i \in 1..Len(input) :
            ClusterAt(input, i, { "l", "n", "ts" })
                => Returned(result) = transform(cfg, RemoveAt(input, i + 1), answer)

\* C7, amended: for X in l, n (not ts) and any u, v, u + s t X + v and
\* u + s X + v have the same normalized spelling and, in every configuration
\* with the analyser off, the same code.
C7_SilentStopBeforeLN ==
    \A i \in 1..Len(input) :
        ClusterAt(input, i, { "l", "n" }) =>
            /\ pc = "cleanup" => word = replace_all(RemoveAt(input, i + 1))
            /\ pc = "done" =>
                  /\ Returned(result) = transform(cfg, RemoveAt(input, i + 1), answer)
                  /\ \A c \in FlagConfigs :
                        transform(c, input, NoAnswer) =
                            transform(c, RemoveAt(input, i + 1), NoAnswer)

C7_Witness ==
    /\ pc = "done"
    /\ input = << "a", "s", "t", "n", "a" >>
    /\ word = << "a", "s", "n", "a" >>
    /\ result = transform(cfg, << "a", "s", "n", "a" >>, answer).code

VowelSymbols == { "0", "lat_A", "lat_B", "lat_C" }

\* C8: when delete_zeros is set, the coded tail of the code returned holds no
\* vowel symbol, neither the placeholder 0 nor a vowel class letter.
C8_NoVowelSymbols ==
    (pc = "done" /\ cfg.delete_zeros) =>
        \A i \in 1..Len(CodedTail) : CodedTail[i] \notin VowelSymbols

NoAdjacentRepeat(seq) == \A i \in 1..(Len(seq) - 1) : seq[i] # seq[i + 1]

\* C9: after the reduction of line 47, and with delete_zeros after the
\* strip and reduction of lines 48-49, the coded tail holds no two adjacent
\* identical symbols and reducing it again changes nothing.
C9_ReducedHasNoRepeat ==
    /\ pc = "strip" => NoAdjacentRepeat(last) /\ reduce_seq(last) = last
    /\ (pc = "cut" /\ cfg.delete_zeros) =>
          NoAdjacentRepeat(last) /\ reduce_seq(last) = last

\* a zero between two symbols of one class is stripped and one symbol is left
C9_Witness ==
    /\ pc = "cut"
    /\ cfg.delete_zeros
    /\ input = << "b", "a", "p" >>
    /\ last = << "1" >>

SoftVowels == { "ya", "yu", "ye", "yo" }

HardOf(c) == CASE c = "ya" -> "a" [] c = "yu" -> "u" [] c = "ye" -> "e" [] c = "yo" -> "o"

\* the word with every soft vowel that stands first or after a vowel or a sign
\* (in the word as given) replaced by j and its hard counterpart
RECURSIVE Iotated(_, _)
Iotated(w, i) ==
    IF i > Len(w) THEN << >>
    ELSE ( IF /\ LowerMap[w[i]] \in SoftVowels
              /\ ( i = 1 \/ LowerMap[w[i - 1]] \in vowels \cup { "hard", "soft" } )
               THEN << "lat_j", HardOf(LowerMap[w[i]]) >>
               ELSE << w[i] >> ) \o Iotated(w, i + 1)

\* C10: the normalized word is the word with every such soft vowel replaced
\* by j and its hard counterpart, no other letter changed by the iotation
\* rules, followed by the remaining rules.
C10_Iotation ==
    pc = "cleanup" => word = ApplyRules(replacement_map, 5, Iotated(input, 1))

=============================================================================
